---- MODULE Spec2Model ----
(***************************************************************************)
(* Numeric ranges of the type checker (crates/compiler/types/src/num.rs):  *)
(* the open lower bound a number literal puts on its type, the containment *)
(* check match_content, the meet intersection and the defaulting tables.   *)
(***************************************************************************)
EXTENDS Integers, Sequences, FiniteSets, TLC

VARIABLES self, call, result

vars == <<self, call, result>>

(* Levels of Num(..)/Int(..) wrappers a content may nest. *)
MaxDepth == 1

------------------------------------------------------------------------------
(* enum IntLitWidth *)
IntLitWidth ==
    {"U8", "U16", "U32", "U64", "U128", "I8", "I16", "I32", "I64", "I128",
     "Nat", "F32", "F64", "Dec"}

(* enum FloatWidth *)
FloatWidth == {"Dec", "F32", "F64"}

(* enum NumericRange: a variant tag and the carried lower-bound width *)
RangeTags ==
    {"IntAtLeastSigned", "IntAtLeastEitherSign", "NumAtLeastSigned", "NumAtLeastEitherSign"}

NumericRange == [tag : RangeTags, width : IntLitWidth]

IntAtLeastSigned(w) == [tag |-> "IntAtLeastSigned", width |-> w]
IntAtLeastEitherSign(w) == [tag |-> "IntAtLeastEitherSign", width |-> w]
NumAtLeastSigned(w) == [tag |-> "NumAtLeastSigned", width |-> w]
NumAtLeastEitherSign(w) == [tag |-> "NumAtLeastEitherSign", width |-> w]

(* enum MatchResult *)
MatchResult == {"RangeInContent", "ContentInRange", "NoIntersection", "DifferentContent"}

(* Option<NumericRange> *)
None == [tag |-> "None"]
Some(r) == [tag |-> "Some", val |-> r]

------------------------------------------------------------------------------
(* IntLitWidth::signedness_and_width *)
signedness_and_width(w) ==
    CASE w = "U8"   -> [sign |-> "Unsigned", bits |-> 8]
      [] w = "U16"  -> [sign |-> "Unsigned", bits |-> 16]
      [] w = "U32"  -> [sign |-> "Unsigned", bits |-> 32]
      [] w = "U64"  -> [sign |-> "Unsigned", bits |-> 64]
      [] w = "U128" -> [sign |-> "Unsigned", bits |-> 128]
      [] w = "I8"   -> [sign |-> "Signed", bits |-> 8]
      [] w = "I16"  -> [sign |-> "Signed", bits |-> 16]
      [] w = "I32"  -> [sign |-> "Signed", bits |-> 32]
      [] w = "I64"  -> [sign |-> "Signed", bits |-> 64]
      [] w = "I128" -> [sign |-> "Signed", bits |-> 128]
      [] w = "Nat"  -> [sign |-> "Unsigned", bits |-> 64]
      [] w = "F32"  -> [sign |-> "Signed", bits |-> 24]
      [] w = "F64"  -> [sign |-> "Signed", bits |-> 53]
      [] w = "Dec"  -> [sign |-> "Signed", bits |-> 128]

(* IntLitWidth::is_signed *)
is_signed(w) == signedness_and_width(w).sign = "Signed"

------------------------------------------------------------------------------
(* u128 and i128 values.  A u128 is eight 16-bit limbs, limb 0 the least   *)
(* significant; an i128 is a sign and the u128 of its magnitude.           *)
LimbIdx == 0..7
LimbBase == 2^16

(* 2^e as a u128, 0 <= e <= 127 *)
Pow2(e) == [i \in LimbIdx |-> IF i = e \div 16 THEN 2^(e % 16) ELSE 0]

(* 2^e - 1 as a u128, 0 <= e <= 128 *)
Pow2Minus1(e) ==
    [i \in LimbIdx |->
        IF i < e \div 16 THEN LimbBase - 1
        ELSE IF i = e \div 16 THEN 2^(e % 16) - 1
        ELSE 0]

U128Zero == [i \in LimbIdx |-> 0]

(* a >= b on u128 *)
U128Geq(a, b) ==
    \/ a = b
    \/ \E i \in LimbIdx : a[i] > b[i] /\ \A j \in LimbIdx : j > i => a[j] = b[j]

I128NonNeg(m) == [neg |-> FALSE, mag |-> m]
I128Neg(m) == [neg |-> TRUE, mag |-> m]

(* x <= y on i128 (no negative zero is ever built) *)
I128Leq(x, y) ==
    CASE x.neg /\ y.neg     -> U128Geq(x.mag, y.mag)
      [] x.neg /\ ~y.neg    -> TRUE
      [] ~x.neg /\ y.neg    -> FALSE
      [] ~x.neg /\ ~y.neg   -> U128Geq(y.mag, x.mag)

(* IntLitWidth::max_value *)
max_value(w) ==
    CASE w = "U8"   -> Pow2Minus1(8)
      [] w = "U16"  -> Pow2Minus1(16)
      [] w = "U32"  -> Pow2Minus1(32)
      [] w = "U64"  -> Pow2Minus1(64)
      [] w = "U128" -> Pow2Minus1(128)
      [] w = "I8"   -> Pow2Minus1(7)
      [] w = "I16"  -> Pow2Minus1(15)
      [] w = "I32"  -> Pow2Minus1(31)
      [] w = "I64"  -> Pow2Minus1(63)
      [] w = "I128" -> Pow2Minus1(127)
      [] w = "Nat"  -> Pow2Minus1(64)
      [] w = "F32"  -> Pow2(24)
      [] w = "F64"  -> Pow2(53)
      [] w = "Dec"  -> Pow2Minus1(127)

(* IntLitWidth::min_value *)
min_value(w) ==
    CASE w \in {"U8", "U16", "U32", "U64", "U128", "Nat"} -> I128NonNeg(U128Zero)
      [] w = "I8"   -> I128Neg(Pow2(7))
      [] w = "I16"  -> I128Neg(Pow2(15))
      [] w = "I32"  -> I128Neg(Pow2(31))
      [] w = "I64"  -> I128Neg(Pow2(63))
      [] w = "I128" -> I128Neg(Pow2(127))
      [] w = "F32"  -> I128Neg(Pow2(24))
      [] w = "F64"  -> I128Neg(Pow2(53))
      [] w = "Dec"  -> I128Neg(Pow2(127))

------------------------------------------------------------------------------
(* is_superset with every capacity comparison strict *)
is_superset_strict(us, lower_bound, is_negative) ==
    LET a == signedness_and_width(us)
        b == signedness_and_width(lower_bound)
    IN  IF is_negative
        THEN CASE a.sign = "Signed" /\ b.sign = "Signed"     -> a.bits > b.bits
               [] a.sign = "Unsigned" /\ b.sign = "Signed"   -> FALSE
               [] a.sign = "Signed" /\ b.sign = "Unsigned"   -> TRUE
               [] a.sign = "Unsigned" /\ b.sign = "Unsigned" -> TRUE
        ELSE a.bits > b.bits

(* is_superset comparing capacities alone on the positive side, so that a *)
(* signed width counts as a superset of the unsigned width of its size    *)
is_superset_by_bits(us, lower_bound, is_negative) ==
    LET a == signedness_and_width(us)
        b == signedness_and_width(lower_bound)
    IN  IF is_negative
        THEN CASE a.sign = "Signed" /\ b.sign = "Signed"     -> a.bits >= b.bits
               [] a.sign = "Unsigned" /\ b.sign = "Signed"   -> FALSE
               [] a.sign = "Signed" /\ b.sign = "Unsigned"   -> TRUE
               [] a.sign = "Unsigned" /\ b.sign = "Unsigned" -> TRUE
        ELSE a.bits >= b.bits

(* IntLitWidth::is_superset(self, lower_bound, is_negative) *)
is_superset(us, lower_bound, is_negative) ==
    LET a == signedness_and_width(us)
        b == signedness_and_width(lower_bound)
    IN  IF is_negative
        THEN CASE a.sign = "Signed" /\ b.sign = "Signed"     -> a.bits >= b.bits
               [] a.sign = "Unsigned" /\ b.sign = "Signed"   -> FALSE
               [] a.sign = "Signed" /\ b.sign = "Unsigned"   -> TRUE
               [] a.sign = "Unsigned" /\ b.sign = "Unsigned" -> TRUE
        ELSE CASE a.sign = b.sign                            -> a.bits >= b.bits
               [] a.sign = "Unsigned" /\ b.sign = "Signed"   -> a.bits >= b.bits
               [] a.sign = "Signed" /\ b.sign = "Unsigned"   -> a.bits > b.bits

------------------------------------------------------------------------------
(* The (SignDemand, width) that contains_int_width reads off a range *)
range_signedness(r) ==
    CASE r.tag = "IntAtLeastSigned"     -> "Signed"
      [] r.tag = "IntAtLeastEitherSign" -> "NoDemand"
      [] r.tag = "NumAtLeastSigned"     -> "Signed"
      [] r.tag = "NumAtLeastEitherSign" -> "NoDemand"

(* NumericRange::contains_float_width *)
contains_float_width(r, w) == TRUE

(* NumericRange::contains_int_width *)
contains_int_width(r, w) ==
    LET at_least_width == r.width
        actual_signedness == signedness_and_width(w).sign
    IN  IF actual_signedness = "Unsigned" /\ range_signedness(r) = "Signed"
        THEN FALSE
        ELSE signedness_and_width(w).bits >= signedness_and_width(at_least_width).bits

(* NumericRange::width *)
width(r) == r.width

------------------------------------------------------------------------------
(* intersection_constructor with the arm for a signed number met with an *)
(* either-sign integer building a number range instead of an integer one *)
intersection_constructor_num(a, b) ==
    CASE a.tag = "IntAtLeastSigned" \/ b.tag = "IntAtLeastSigned"
            -> [ctor |-> "IntAtLeastSigned", is_negative |-> TRUE]
      [] a.tag = "NumAtLeastSigned" \/ b.tag = "NumAtLeastSigned"
            -> [ctor |-> "NumAtLeastSigned", is_negative |-> TRUE]
      [] a.tag = "IntAtLeastEitherSign" \/ b.tag = "IntAtLeastEitherSign"
            -> [ctor |-> "IntAtLeastEitherSign", is_negative |-> FALSE]
      [] OTHER
            -> [ctor |-> "NumAtLeastEitherSign", is_negative |-> FALSE]

(* The match of NumericRange::intersection that picks the result's        *)
(* constructor and the side of zero to compare on, arms in source order.  *)
intersection_constructor(a, b) ==
    CASE a.tag = "IntAtLeastSigned" \/ b.tag = "IntAtLeastSigned"
            -> [ctor |-> "IntAtLeastSigned", is_negative |-> TRUE]
      [] \/ (a.tag = "NumAtLeastSigned" /\ b.tag = "IntAtLeastEitherSign")
         \/ (a.tag = "IntAtLeastEitherSign" /\ b.tag = "NumAtLeastSigned")
            -> [ctor |-> "IntAtLeastSigned", is_negative |-> TRUE]
      [] \/ (a.tag = "NumAtLeastSigned"
                /\ b.tag \in {"NumAtLeastSigned", "NumAtLeastEitherSign"})
         \/ (a.tag = "NumAtLeastEitherSign" /\ b.tag = "NumAtLeastSigned")
            -> [ctor |-> "NumAtLeastSigned", is_negative |-> TRUE]
      [] \/ (a.tag = "IntAtLeastEitherSign"
                /\ b.tag \in {"IntAtLeastEitherSign", "NumAtLeastEitherSign"})
         \/ (a.tag = "NumAtLeastEitherSign" /\ b.tag = "IntAtLeastEitherSign")
            -> [ctor |-> "IntAtLeastEitherSign", is_negative |-> FALSE]
      [] a.tag = "NumAtLeastEitherSign" /\ b.tag = "NumAtLeastEitherSign"
            -> [ctor |-> "NumAtLeastEitherSign", is_negative |-> FALSE]

(* intersection keeping the narrower of the two widths, the one the other *)
(* is a superset of                                                       *)
intersection_keeps_subset(a, b) ==
    LET left == width(a)
        right == width(b)
        c == intersection_constructor(a, b)
    IN  IF c.is_negative /\ (~is_signed(left) \/ ~is_signed(right))
        THEN None
        ELSE IF is_superset(left, right, c.is_negative)
        THEN Some([tag |-> c.ctor, width |-> right])
        ELSE IF is_superset(right, left, c.is_negative)
        THEN Some([tag |-> c.ctor, width |-> left])
        ELSE None

(* intersection without the test that both widths are signed *)
intersection_unguarded(a, b) ==
    LET left == width(a)
        right == width(b)
        c == intersection_constructor(a, b)
    IN  IF is_superset(left, right, c.is_negative)
        THEN Some([tag |-> c.ctor, width |-> left])
        ELSE IF is_superset(right, left, c.is_negative)
        THEN Some([tag |-> c.ctor, width |-> right])
        ELSE None

(* NumericRange::intersection *)
intersection(a, b) ==
    LET left == width(a)
        right == width(b)
        c == intersection_constructor(a, b)
    IN  IF c.is_negative /\ (~is_signed(left) \/ ~is_signed(right))
        THEN None
        ELSE IF is_superset(left, right, c.is_negative)
        THEN Some([tag |-> c.ctor, width |-> left])
        ELSE IF is_superset(right, left, c.is_negative)
        THEN Some([tag |-> c.ctor, width |-> right])
        ELSE None

------------------------------------------------------------------------------
(* Handles of the built-in number types in the substitution store *)
Variable ==
    {"Variable::U8", "Variable::U16", "Variable::U32", "Variable::U64",
     "Variable::U128", "Variable::I8", "Variable::I16", "Variable::I32",
     "Variable::I64", "Variable::I128", "Variable::NAT", "Variable::F32",
     "Variable::F64", "Variable::DEC"}

(* int_lit_width_to_variable *)
int_lit_width_to_variable(w) ==
    CASE w = "U8"   -> "Variable::U8"
      [] w = "U16"  -> "Variable::U16"
      [] w = "U32"  -> "Variable::U32"
      [] w = "U64"  -> "Variable::U64"
      [] w = "U128" -> "Variable::U128"
      [] w = "I8"   -> "Variable::I8"
      [] w = "I16"  -> "Variable::I16"
      [] w = "I32"  -> "Variable::I32"
      [] w = "I64"  -> "Variable::I64"
      [] w = "I128" -> "Variable::I128"
      [] w = "Nat"  -> "Variable::NAT"
      [] w = "F32"  -> "Variable::F32"
      [] w = "F64"  -> "Variable::F64"
      [] w = "Dec"  -> "Variable::DEC"

ALL_INT_OR_FLOAT_VARIABLES ==
    <<"Variable::I8", "Variable::U8", "Variable::I16", "Variable::U16",
      "Variable::F32", "Variable::I32", "Variable::U32", "Variable::F64",
      "Variable::I64", "Variable::NAT", "Variable::U64", "Variable::I128",
      "Variable::DEC", "Variable::U128">>

SIGNED_INT_OR_FLOAT_VARIABLES ==
    <<"Variable::I8", "Variable::I16", "Variable::F32", "Variable::I32",
      "Variable::F64", "Variable::I64", "Variable::I128", "Variable::DEC">>

ALL_INT_VARIABLES ==
    <<"Variable::I8", "Variable::U8", "Variable::I16", "Variable::U16",
      "Variable::I32", "Variable::U32", "Variable::I64", "Variable::NAT",
      "Variable::U64", "Variable::I128", "Variable::U128">>

SIGNED_INT_VARIABLES ==
    <<"Variable::I8", "Variable::I16", "Variable::I32", "Variable::I64",
      "Variable::I128">>

(* The table variable_slice searches for each variant *)
table_of(r) ==
    CASE r.tag = "IntAtLeastSigned"     -> SIGNED_INT_VARIABLES
      [] r.tag = "IntAtLeastEitherSign" -> ALL_INT_VARIABLES
      [] r.tag = "NumAtLeastSigned"     -> SIGNED_INT_OR_FLOAT_VARIABLES
      [] r.tag = "NumAtLeastEitherSign" -> ALL_INT_OR_FLOAT_VARIABLES

(* iter().position(|v| *v == target): the first index holding target, as an *)
(* Option (0 for None, tables being indexed from 1 here)                    *)
position(table, target) ==
    IF \E i \in 1..Len(table) : table[i] = target
    THEN CHOOSE i \in 1..Len(table) :
            table[i] = target /\ \A j \in 1..(i - 1) : table[j] # target
    ELSE 0

(* How a call that may abort ends: with a value, or in a panic *)
Panic == [tag |-> "Panic"]
Returned(v) == [tag |-> "Returned", val |-> v]

(* variable_slice starting one entry late *)
variable_slice_after(r) ==
    LET target == int_lit_width_to_variable(r.width)
        table == table_of(r)
        start == position(table, target)
    IN  IF start = 0 THEN Panic ELSE Returned(SubSeq(table, start + 1, Len(table)))

(* NumericRange::variable_slice; unwrap() of None panics *)
variable_slice(r) ==
    LET target == int_lit_width_to_variable(r.width)
        table == table_of(r)
        start == position(table, target)
    IN  IF start = 0 THEN Panic ELSE Returned(SubSeq(table, start, Len(table)))

------------------------------------------------------------------------------
(* The Symbol constants match_content names, and one symbol it does not *)
IntSymbols ==
    {"NUM_I8", "NUM_SIGNED8", "NUM_U8", "NUM_UNSIGNED8", "NUM_I16", "NUM_SIGNED16",
     "NUM_U16", "NUM_UNSIGNED16", "NUM_I32", "NUM_SIGNED32", "NUM_U32",
     "NUM_UNSIGNED32", "NUM_I64", "NUM_SIGNED64", "NUM_NAT", "NUM_NATURAL",
     "NUM_U64", "NUM_UNSIGNED64", "NUM_I128", "NUM_SIGNED128", "NUM_U128",
     "NUM_UNSIGNED128"}
FloatSymbols == {"NUM_DEC", "NUM_F32", "NUM_F64"}
FracSymbols == {"NUM_FRAC", "NUM_FLOATINGPOINT"}
WrapperSymbols == {"NUM_NUM", "NUM_INT", "NUM_INTEGER"}
OtherSymbols == {"STR_STR"}

(* enum Content, as far as match_content tells its variants apart; an      *)
(* Alias carries the contents the substitution store holds for its         *)
(* arguments and for its real variable.  Num(..) and Int(..) carry exactly *)
(* one argument, as the debug assertions of match_content require.         *)
FlexVar == [tag |-> "FlexVar"]
RigidVar == [tag |-> "RigidVar"]
Structure == [tag |-> "Structure"]
RangedNumber(r) == [tag |-> "RangedNumber", range |-> r]
Alias(symbol, args, real) ==
    [tag |-> "Alias", symbol |-> symbol, args |-> args, real |-> real]

(* The contents that hold no further content *)
LeafContent ==
    {FlexVar, RigidVar, Structure}
        \cup {RangedNumber(r) : r \in NumericRange}
        \cup {Alias(s, <<>>, Structure) :
                s \in IntSymbols \cup FloatSymbols \cup FracSymbols \cup OtherSymbols}

(* What the store may hold for the argument of Num(..) or Int(..) *)
ArgContent == {FlexVar, RigidVar, Structure}

(* The contents with exactly depth wrappers around a leaf *)
RECURSIVE Content(_)
Content(depth) ==
    IF depth = 0
    THEN LeafContent
    ELSE {Alias(s, <<a>>, real) :
            s \in WrapperSymbols, a \in ArgContent, real \in Content(depth - 1)}

(* from_content_in_range *)
from_content_in_range(b) == IF b THEN "ContentInRange" ELSE "NoIntersection"

(* alias_int_width with the widths of the two 8-bit arms exchanged *)
alias_int_width_swapped(symbol) ==
    CASE symbol \in {"NUM_I8", "NUM_SIGNED8"}       -> "U8"
      [] symbol \in {"NUM_U8", "NUM_UNSIGNED8"}     -> "I8"
      [] symbol \in {"NUM_I16", "NUM_SIGNED16"}     -> "I16"
      [] symbol \in {"NUM_U16", "NUM_UNSIGNED16"}   -> "U16"
      [] symbol \in {"NUM_I32", "NUM_SIGNED32"}     -> "I32"
      [] symbol \in {"NUM_U32", "NUM_UNSIGNED32"}   -> "U32"
      [] symbol \in {"NUM_I64", "NUM_SIGNED64"}     -> "I64"
      [] symbol \in {"NUM_NAT", "NUM_NATURAL"}      -> "Nat"
      [] symbol \in {"NUM_U64", "NUM_UNSIGNED64"}   -> "U64"
      [] symbol \in {"NUM_I128", "NUM_SIGNED128"}   -> "I128"
      [] symbol \in {"NUM_U128", "NUM_UNSIGNED128"} -> "U128"

(* The width each integer alias arm of match_content hands to contains_int_width *)
alias_int_width(symbol) ==
    CASE symbol \in {"NUM_I8", "NUM_SIGNED8"}       -> "I8"
      [] symbol \in {"NUM_U8", "NUM_UNSIGNED8"}     -> "U8"
      [] symbol \in {"NUM_I16", "NUM_SIGNED16"}     -> "I16"
      [] symbol \in {"NUM_U16", "NUM_UNSIGNED16"}   -> "U16"
      [] symbol \in {"NUM_I32", "NUM_SIGNED32"}     -> "I32"
      [] symbol \in {"NUM_U32", "NUM_UNSIGNED32"}   -> "U32"
      [] symbol \in {"NUM_I64", "NUM_SIGNED64"}     -> "I64"
      [] symbol \in {"NUM_NAT", "NUM_NATURAL"}      -> "Nat"
      [] symbol \in {"NUM_U64", "NUM_UNSIGNED64"}   -> "U64"
      [] symbol \in {"NUM_I128", "NUM_SIGNED128"}   -> "I128"
      [] symbol \in {"NUM_U128", "NUM_UNSIGNED128"} -> "U128"

(* The width each float alias arm hands to contains_float_width *)
alias_float_width(symbol) ==
    CASE symbol = "NUM_DEC" -> "Dec"
      [] symbol = "NUM_F32" -> "F32"
      [] symbol = "NUM_F64" -> "F64"

(* The RangedNumber arm of match_content *)
match_ranged_number(r, other_range) ==
    LET i == intersection(r, other_range)
    IN  IF i.tag = "Some"
        THEN IF i.val = other_range THEN "ContentInRange" ELSE "RangeInContent"
        ELSE "NoIntersection"

(* match_frac answering through from_content_in_range like the arms of the *)
(* fixed float widths, an integer range containing no float                *)
match_frac_contains(r) ==
    from_content_in_range(r.tag \in {"NumAtLeastSigned", "NumAtLeastEitherSign"})

(* The NUM_FRAC | NUM_FLOATINGPOINT arm of match_content *)
match_frac(r) ==
    CASE r.tag \in {"IntAtLeastSigned", "IntAtLeastEitherSign"} -> "DifferentContent"
      [] r.tag \in {"NumAtLeastSigned", "NumAtLeastEitherSign"} -> "ContentInRange"

(* NumericRange::match_content *)
RECURSIVE match_content(_, _)
match_content(r, content) ==
    CASE content.tag = "RangedNumber" -> match_ranged_number(r, content.range)
      [] content.tag = "Alias" ->
            CASE content.symbol \in IntSymbols ->
                    from_content_in_range(
                        contains_int_width(r, alias_int_width(content.symbol)))
              [] content.symbol \in FloatSymbols ->
                    from_content_in_range(
                        contains_float_width(r, alias_float_width(content.symbol)))
              [] content.symbol \in FracSymbols -> match_frac(r)
              [] content.symbol \in WrapperSymbols ->
                    IF content.args[1].tag \in {"FlexVar", "RigidVar"}
                    THEN "RangeInContent"
                    ELSE match_content(r, content.real)
              [] OTHER -> "DifferentContent"
      [] OTHER -> "DifferentContent"

------------------------------------------------------------------------------
(* State: the range a call is made on, the call with its arguments, and   *)
(* what it returned.  Every function is pure, so a behaviour is one call  *)
(* on one range.                                                          *)
NoCall == [op |-> "none"]

Init ==
    /\ self \in NumericRange
    /\ call = NoCall
    /\ result = None

Intersection ==
    /\ call = NoCall
    /\ \E other \in NumericRange :
        /\ call' = [op |-> "intersection", other |-> other]
        /\ result' = intersection(self, other)
        /\ UNCHANGED self

MatchContent ==
    /\ call = NoCall
    /\ \E depth \in 0..MaxDepth :
        \E content \in Content(depth) :
            /\ call' = [op |-> "match_content", content |-> content]
            /\ result' = match_content(self, content)
            /\ UNCHANGED self

VariableSlice ==
    /\ call = NoCall
    /\ call' = [op |-> "variable_slice"]
    /\ result' = variable_slice(self)
    /\ UNCHANGED self

IsSuperset ==
    /\ call = NoCall
    /\ \E lower_bound \in IntLitWidth, is_negative \in BOOLEAN :
        /\ call' = [op |-> "is_superset", lower_bound |-> lower_bound,
                    is_negative |-> is_negative]
        /\ result' = is_superset(width(self), lower_bound, is_negative)
        /\ UNCHANGED self

Next ==
    \/ Intersection
    \/ MatchContent
    \/ VariableSlice
    \/ IsSuperset

Spec == Init /\ [][Next]_vars

------------------------------------------------------------------------------
(* Vocabulary of the properties *)

(* The widths that name an integer type (the float-family widths left out) *)
IntegerWidths ==
    {"U8", "U16", "U32", "U64", "U128", "I8", "I16", "I32", "I64", "I128", "Nat"}

UnsignedWidths == {"U8", "U16", "U32", "U64", "U128", "Nat"}

Capacity(w) == signedness_and_width(w).bits

DemandsSigned(r) == r.tag \in {"IntAtLeastSigned", "NumAtLeastSigned"}

IntegerOnly(r) == r.tag \in {"IntAtLeastSigned", "IntAtLeastEitherSign"}

Max(m, n) == IF m >= n THEN m ELSE n

Called(op) == call.op = op

(* C1: intersection is commutative: intersection(A, B) and intersection(B, A) *)
(* agree in presence and in the exact variant and carried width.              *)
C1_Commutative ==
    Called("intersection") => result = intersection(call.other, self)

(* C2 as stated: intersection(A, A) is present and equal to A for every A. *)
C2_IdempotentEveryRange ==
    (Called("intersection") /\ call.other = self) => result = Some(self)

(* C2: intersection(A, A) is present and equal to A for every range A that *)
(* does not demand signedness on an unsigned width; for a range that does, *)
(* intersection(A, A) is absent.                                           *)
C2_Idempotent ==
    (Called("intersection") /\ call.other = self) =>
        IF DemandsSigned(self) /\ width(self) \in UnsignedWidths
        THEN result = None
        ELSE result = Some(self)

C2_Witness ==
    /\ Called("intersection")
    /\ call.other = self
    /\ self = NumAtLeastSigned("F64")
    /\ result = Some(self)

(* C3: meet property: when intersection(A, B) is a present range C, every *)
(* integer width that C contains is contained in A and in B.              *)
C3_Meet ==
    (Called("intersection") /\ result.tag = "Some") =>
        \A w \in IntegerWidths :
            contains_int_width(result.val, w) =>
                contains_int_width(self, w) /\ contains_int_width(call.other, w)

C3_Witness ==
    /\ Called("intersection")
    /\ result.tag = "Some"
    /\ Capacity(width(self)) < Capacity(width(call.other))
    /\ \E w \in IntegerWidths :
        contains_int_width(self, w) /\ ~contains_int_width(result.val, w)
    /\ \E w \in IntegerWidths : contains_int_width(result.val, w)

(* C4: signed-demand absorption: a range that demands signedness met with a *)
(* range whose width is unsigned has no intersection, in either order, and  *)
(* the call returns the absent value.                                       *)
C4_SignedAbsorbsUnsigned ==
    (/\ Called("intersection")
     /\ \/ DemandsSigned(self) /\ width(call.other) \in UnsignedWidths
        \/ DemandsSigned(call.other) /\ width(self) \in UnsignedWidths)
        => result = None

C4_Witness ==
    /\ Called("intersection")
    /\ DemandsSigned(call.other)
    /\ ~DemandsSigned(self)
    /\ width(self) \in UnsignedWidths
    /\ width(call.other) \notin UnsignedWidths
    /\ result = None

(* The built-in type names of each integer width *)
AliasesOf(w) ==
    CASE w = "I8"   -> {"NUM_I8", "NUM_SIGNED8"}
      [] w = "U8"   -> {"NUM_U8", "NUM_UNSIGNED8"}
      [] w = "I16"  -> {"NUM_I16", "NUM_SIGNED16"}
      [] w = "U16"  -> {"NUM_U16", "NUM_UNSIGNED16"}
      [] w = "I32"  -> {"NUM_I32", "NUM_SIGNED32"}
      [] w = "U32"  -> {"NUM_U32", "NUM_UNSIGNED32"}
      [] w = "I64"  -> {"NUM_I64", "NUM_SIGNED64"}
      [] w = "U64"  -> {"NUM_U64", "NUM_UNSIGNED64"}
      [] w = "I128" -> {"NUM_I128", "NUM_SIGNED128"}
      [] w = "U128" -> {"NUM_U128", "NUM_UNSIGNED128"}
      [] w = "Nat"  -> {"NUM_NAT", "NUM_NATURAL"}

MatchedAlias(symbols) ==
    /\ Called("match_content")
    /\ call.content.tag = "Alias"
    /\ call.content.symbol \in symbols

(* C5: containment consistency: against the built-in alias of an integer  *)
(* width W, match_content answers ContentInRange exactly when             *)
(* contains_int_width(R, W) holds, which is when W is not an unsigned     *)
(* width under a signed demand and W has at least the capacity of R's     *)
(* width; in every other case it answers NoIntersection.                  *)
C5_ContainmentConsistency ==
    \A w \in IntegerWidths :
        MatchedAlias(AliasesOf(w)) =>
            LET inside ==
                    /\ ~(w \in UnsignedWidths /\ DemandsSigned(self))
                    /\ Capacity(w) >= Capacity(width(self))
            IN  /\ contains_int_width(self, w) = inside
                /\ result = (IF inside THEN "ContentInRange" ELSE "NoIntersection")

C5_Witness ==
    /\ MatchedAlias(AliasesOf("U16"))
    /\ self = IntAtLeastSigned("I8")
    /\ result = "NoIntersection"

(* The entries of a sequence *)
Entries(seq) == {seq[i] : i \in 1..Len(seq)}

(* The range's width has an entry in the table of the range's family *)
InFamilyTable(r) == int_lit_width_to_variable(width(r)) \in Entries(table_of(r))

(* C6: defaulting suffix: for a range whose width is in the table of its  *)
(* family, variable_slice returns a non-empty sequence that starts with   *)
(* the handle of the width and is the table's suffix from the width's     *)
(* position.                                                              *)
C6_DefaultingSuffix ==
    (Called("variable_slice") /\ InFamilyTable(self)) =>
        LET table == table_of(self)
            handle == int_lit_width_to_variable(width(self))
            slice == result.val
        IN  /\ result.tag = "Returned"
            /\ Len(slice) >= 1
            /\ slice[1] = handle
            /\ \E p \in 1..Len(table) :
                /\ table[p] = handle
                /\ Len(slice) = Len(table) - p + 1
                /\ \A i \in 1..Len(slice) : slice[i] = table[p + i - 1]

C6_Witness ==
    /\ Called("variable_slice")
    /\ self = NumAtLeastEitherSign("F32")
    /\ result.tag = "Returned"
    /\ Len(result.val) = 10
    /\ result.val[1] = "Variable::F32"
    /\ result.val[10] = "Variable::U128"

(* The width a handle of the tables stands for *)
WidthOf(v) == CHOOSE w \in IntLitWidth : int_lit_width_to_variable(w) = v

(* C7: variable_slice enumerates every satisfying width: for a range      *)
(* whose width is in its family table, an integer width of that table is  *)
(* in variable_slice(R) if and only if contains_int_width(R, W) holds,    *)
(* and the entries are in ascending order of capacity.                    *)
C7_SliceIsEverySatisfyingWidth ==
    (Called("variable_slice") /\ InFamilyTable(self)) =>
        /\ result.tag = "Returned"
        /\ \A w \in IntegerWidths :
            int_lit_width_to_variable(w) \in Entries(table_of(self)) =>
                (int_lit_width_to_variable(w) \in Entries(result.val)
                    <=> contains_int_width(self, w))
        /\ \A i, j \in 1..Len(result.val) :
            i < j => Capacity(WidthOf(result.val[i])) <= Capacity(WidthOf(result.val[j]))

(* C8: generic float marker: against Frac / FloatingPoint an integer-only *)
(* range answers DifferentContent, never NoIntersection, and a number     *)
(* range answers ContentInRange.                                          *)
C8_FracDispatch ==
    MatchedAlias({"NUM_FRAC", "NUM_FLOATINGPOINT"}) =>
        /\ IntegerOnly(self) => result = "DifferentContent"
        /\ ~IntegerOnly(self) => result = "ContentInRange"
        /\ result # "NoIntersection"

C8_Witness ==
    /\ MatchedAlias({"NUM_FLOATINGPOINT"})
    /\ self = IntAtLeastEitherSign("U32")
    /\ result = "DifferentContent"

(* C9: result of intersection: a present result is integer-only iff A or *)
(* B is, demands signedness iff A or B does, and carries the width of A  *)
(* or of B that is a superset of the other on the chosen side (negative  *)
(* when the result demands signedness, positive otherwise), so its       *)
(* capacity is the larger of the two; the result is absent exactly when  *)
(* the result demands signedness and a width is unsigned, or neither     *)
(* width is a superset of the other.                                     *)
C9_IntersectionResult ==
    Called("intersection") =>
        LET a == self
            b == call.other
            signed == DemandsSigned(a) \/ DemandsSigned(b)
            unsignedBound ==
                signed /\ (width(a) \in UnsignedWidths \/ width(b) \in UnsignedWidths)
            neither ==
                /\ ~is_superset(width(a), width(b), signed)
                /\ ~is_superset(width(b), width(a), signed)
        IN  /\ result = None <=> (unsignedBound \/ neither)
            /\ result # None =>
                /\ result.tag = "Some"
                /\ IntegerOnly(result.val) <=> (IntegerOnly(a) \/ IntegerOnly(b))
                /\ DemandsSigned(result.val) <=> signed
                /\ \/ /\ width(result.val) = width(a)
                      /\ is_superset(width(a), width(b), signed)
                   \/ /\ width(result.val) = width(b)
                      /\ is_superset(width(b), width(a), signed)
                /\ Capacity(width(result.val))
                     = Max(Capacity(width(a)), Capacity(width(b)))

C9_Witness ==
    /\ Called("intersection")
    /\ self = NumAtLeastSigned("I16")
    /\ call.other = IntAtLeastEitherSign("F32")
    /\ result = Some(IntAtLeastSigned("F32"))

(* C10: is_superset agrees with the representable bounds: on the positive *)
(* side a is a superset of b exactly when max_value(a) >= max_value(b),   *)
(* on the negative side exactly when min_value(a) <= min_value(b); on the *)
(* positive side I16 is a superset of U8, I16 is not one of U16, and U16  *)
(* is one of I8.                                                          *)
C10_SupersetIsBounds ==
    Called("is_superset") =>
        LET a == width(self)
            b == call.lower_bound
        IN  /\ ~call.is_negative =>
                (result <=> U128Geq(max_value(a), max_value(b)))
            /\ call.is_negative =>
                (result <=> I128Leq(min_value(a), min_value(b)))
            /\ (a = "I16" /\ b = "U8" /\ ~call.is_negative) => result = TRUE
            /\ (a = "I16" /\ b = "U16" /\ ~call.is_negative) => result = FALSE
            /\ (a = "U16" /\ b = "I8" /\ ~call.is_negative) => result = TRUE

C10_Witness ==
    /\ Called("is_superset")
    /\ width(self) = "I16"
    /\ call.lower_bound = "U16"
    /\ ~call.is_negative
    /\ result = FALSE
    /\ ~U128Geq(max_value("I16"), max_value("U16"))

(* C11: meaning of the match result against a pending range R2: when     *)
(* match_content answers RangeInContent the range R is inside R2          *)
(* (intersection(R, R2) is R, and every integer width R contains R2       *)
(* contains too); when it answers ContentInRange R2 is inside R (every    *)
(* integer width R2 contains R contains too); it answers NoIntersection   *)
(* exactly when intersection(R, R2) is absent.                            *)
C11_MatchMeaning ==
    (Called("match_content") /\ call.content.tag = "RangedNumber") =>
        LET r2 == call.content.range
            met == intersection(self, r2)
        IN  /\ result = "RangeInContent" =>
                /\ met = Some(self)
                /\ \A w \in IntegerWidths :
                    contains_int_width(self, w) => contains_int_width(r2, w)
            /\ result = "ContentInRange" =>
                \A w \in IntegerWidths :
                    contains_int_width(r2, w) => contains_int_width(self, w)
            /\ result = "NoIntersection" <=> met = None

------------------------------------------------------------------------------
(* Merging: the constraints found for one literal are met one after the    *)
(* other, each call of intersection taking the result of the call before   *)
(* it; an absent result leaves nothing to call intersection on, and the    *)
(* merge is absent.                                                        *)

(* Constraints met into the first one *)
MaxMerges == 2

(* The ranges variable_slice finds in the table of their variant *)
WellFormed == {r \in NumericRange : InFamilyTable(r)}

InitWellFormed ==
    /\ self \in WellFormed
    /\ call = NoCall
    /\ result = None

Merge ==
    /\ call.op \in {"none", "merge"}
    /\ call.op = "merge" => Len(call.others) < MaxMerges
    /\ \E other \in WellFormed :
        LET merged == IF call.op = "none" THEN Some(self) ELSE result
            others == IF call.op = "none" THEN <<>> ELSE call.others
        IN  /\ call' = [op |-> "merge", others |-> Append(others, other)]
            /\ result' = IF merged.tag = "Some"
                         THEN intersection(merged.val, other)
                         ELSE None
            /\ UNCHANGED self

SliceOfMerged ==
    /\ call.op = "merge"
    /\ result.tag = "Some"
    /\ call' = [op |-> "variable_slice_of_merged", range |-> result.val]
    /\ result' = variable_slice(result.val)
    /\ UNCHANGED self

NextMerge ==
    \/ Merge
    \/ SliceOfMerged

SpecMerge == InitWellFormed /\ [][NextMerge]_vars

(* C12: well-formedness is preserved by merging: starting from ranges     *)
(* whose width is in the table of their family, every present result of   *)
(* a sequence of intersection calls has its width in the table of its own *)
(* family, so variable_slice of such a result never aborts.               *)
C12_MergeKeepsWellFormed ==
    /\ (call.op = "merge" /\ result.tag = "Some") => InFamilyTable(result.val)
    /\ call.op = "variable_slice_of_merged" => result.tag = "Returned"

(* intersection(A, intersection(B, C)), absent when intersection(B, C) is *)
MergeRight(a, b, c) ==
    LET bc == intersection(b, c)
    IN  IF bc.tag = "Some" THEN intersection(a, bc.val) ELSE None

(* C13: merging is order-independent: intersection(intersection(A, B), C) *)
(* equals intersection(A, intersection(B, C)), an absent intermediate     *)
(* result making the whole merge absent.                                  *)
C13_MergeIsAssociative ==
    (call.op = "merge" /\ Len(call.others) = 2) =>
        result = MergeRight(self, call.others[1], call.others[2])

====
